---------------------------- MODULE Spec2Model ----------------------------
(***************************************************************************)
(* gopose: the `up` run of the conflict engine.                            *)
(*                                                                         *)
(*   upCmd.RunE                      src/cmd/up.go                         *)
(*   UnifiedConflictDetectorImpl     src/unnamed/part_009                  *)
(*   PortAllocatorImpl, probes       src/unnamed/part_011                  *)
(*   UnifiedOverrideGeneratorImpl    src/internal/app/interfaces.go        *)
(*   OverrideGeneratorImpl           src/internal/generator/interfaces.go  *)
(*                                                                         *)
(* Strings that the code builds or takes apart are modelled by their       *)
(* parts: a name is a sequence of tokens (so that projectName + "_" + net  *)
(* is a concatenation), an IPv4 address is the sequence of its dot         *)
(* separated fields, a subnet "a.b.c.d/m" is the pair of its address and   *)
(* its mask length.  A Go map is a function; the order in which `range`    *)
(* walks a map is not defined by the language, so every walk whose order   *)
(* can be observed takes its order as a nondeterministic choice.  A nil    *)
(* pointer is the empty sequence, a non-nil one a sequence of length one.  *)
(***************************************************************************)
EXTENDS Integers, Sequences, FiniteSets, TLC

(***************************************************************************)
(* Bounds of the model.                                                    *)
(***************************************************************************)
MaxServices == 2
MaxBindings == 2
MaxTotalBindings == 3
SpanAbove == 2
MaxNetworks == 2
MaxDockerNets == 1
MaxProbeCalls == 2
MaxGroupConflicts == 101
MaxOtherConflicts == 2
MaxResolutions == 3

(***************************************************************************)
(* Program constants.                                                      *)
(***************************************************************************)
basePort == 8000
portIncrement == 100
PrivilegedMax == 1023
MaxPort == 65535

(***************************************************************************)
(* Input spaces.                                                           *)
(***************************************************************************)
ServiceNameList == <<"web", "api", "db", "cache">>
NetworkNameList == <<"app", "back", "front">>

ServiceNames == {ServiceNameList[i] : i \in 1..MaxServices}
NetworkNames == {NetworkNameList[i] : i \in 1..MaxNetworks}

\* Host ports straddle the privileged boundary.
PortSpace == (PrivilegedMax - 1)..(PrivilegedMax + SpanAbove)
HostPorts == {0} \cup (PortSpace \ {PrivilegedMax - 1})
ContainerPorts == {80}
Protocols == {"tcp"}

PortMapping == [Host : HostPorts, Container : ContainerPorts, Protocol : Protocols]

SeqsUpTo(S, n) == UNION {[1..k -> S] : k \in 0..n}

Subnet(a, b, c, d, m) == [addr |-> <<a, b, c, d>>, bits |-> m]
EmptySubnet == [addr |-> <<>>, bits |-> 0]

SubnetChoices == {Subnet(172, 20, 0, 0, 24), Subnet(10, 20, 0, 0, 24), Subnet(10, 21, 0, 0, 24)}
ManifestSubnets == {Subnet(172, 20, 0, 0, 24), Subnet(10, 20, 0, 0, 24)}
IPChoices == {<<172, 20, 0, 5>>, <<10, 9, 9, 9>>}
ProjectNames == {<<>>, <<"proj">>}
DockerNetworkNames == {<<"bridge">>, <<NetworkNameList[1]>>, <<"proj", "_", NetworkNameList[1]>>}
Strategies == {"auto_increment", "range_allocation", "user_defined"}

\* scanner.NetworkInfo
NetworkInfo == [Name : DockerNetworkNames, Subnets : SeqsUpTo(SubnetChoices, 1)]

NoNetworks == [n \in {} |-> <<>>]

VARIABLES
    config,         \* types.ComposeConfig: Services and Networks of the manifest
    usedPorts,      \* what the host port probe reports
    dockerNets,     \* what the network probe reports
    portConfig,     \* types.PortConfig
    projectName,    \* composeProjectName
    phase,          \* where upCmd.RunE is
    strategy,       \* resolutionStrategy, once RunE has read the flag
    dryRun,         \* the dry-run flag in a sequence, empty until RunE has read it
    conflictInfo,   \* types.UnifiedConflictInfo
    serviceOrder,   \* the order in which detection walked config.Services
    networkOrder,   \* the order in which detection walked config.Networks
    portIdx,        \* loop index of resolvePortConflicts
    allocatedPorts, \* local of resolvePortConflicts
    netIdx,         \* loop index of resolveNetworkConflicts
    usedSubnets,    \* local of resolveNetworkConflicts
    detectProbes,   \* how the two probe calls of DetectConflicts ended
    probeScript,    \* outcomes of the probe calls AllocatePort is still to make
    probeFailures,  \* failed probe calls made by AllocatePort so far
    override,       \* types.OverrideConfig, once built
    written,        \* the override file on disk
    runErr,         \* the error RunE returns
    calls,          \* the operations RunE has invoked
    callArgs,       \* the arguments of a function called on its own
    callResult      \* what that call returned

inputs == <<config, usedPorts, dockerNets, portConfig, projectName, callArgs, callResult>>
vars == <<config, usedPorts, dockerNets, portConfig, projectName, phase, strategy,
          dryRun, conflictInfo, serviceOrder, networkOrder, portIdx, allocatedPorts,
          netIdx, usedSubnets, detectProbes,
          probeScript, probeFailures, override, written, runErr, calls,
          callArgs, callResult>>

(***************************************************************************)
(* Orders of a map walk.                                                   *)
(***************************************************************************)
Perms(S) == {f \in [1..Cardinality(S) -> S] : \A i, j \in DOMAIN f : i # j => f[i] # f[j]}

Range(f) == {f[i] : i \in DOMAIN f}

(***************************************************************************)
(* UnifiedConflictDetectorImpl.DetectPortConflicts                         *)
(***************************************************************************)
\* The bindings in the order the two nested loops visit them.
RECURSIVE VisitOrder(_, _)
VisitOrder(cfg, order) ==
    IF order = <<>> THEN <<>>
    ELSE LET svc == Head(order)
             ports == cfg.Services[svc].Ports
         IN  [k \in 1..Len(ports) |-> [ServiceName |-> svc, Mapping |-> ports[k]]]
                 \o VisitOrder(cfg, Tail(order))

\* ClassifyBinding without the skip of an unset host port.
ClassifyBindingNoSkip(host, usedPortsMap, composePortsMap) ==
    IF host \in usedPortsMap THEN "system"
    ELSE IF host \in DOMAIN composePortsMap THEN "compose"
    ELSE "claim"

\* The branch one binding takes in the loop body.
ClassifyBinding(host, usedPortsMap, composePortsMap) ==
    IF host = 0 THEN "skip"
    ELSE IF host \in usedPortsMap THEN "system"
    ELSE IF host \in DOMAIN composePortsMap THEN "compose"
    ELSE "claim"

PortConflictInfo(svc, mapping, type) ==
    [ServiceName |-> svc, Port |-> mapping.Host, Protocol |-> mapping.Protocol,
     Type |-> type, Resolution |-> <<>>]

RECURSIVE DetectPortLoop(_, _, _, _, _)
DetectPortLoop(visits, k, usedPortsMap, composePortsMap, conflicts) ==
    IF k > Len(visits) THEN conflicts
    ELSE LET svc == visits[k].ServiceName
             m == visits[k].Mapping
             branch == ClassifyBinding(m.Host, usedPortsMap, composePortsMap)
         IN  CASE branch = "skip" ->
                    DetectPortLoop(visits, k + 1, usedPortsMap, composePortsMap, conflicts)
               [] branch = "system" ->
                    DetectPortLoop(visits, k + 1, usedPortsMap, composePortsMap,
                                   Append(conflicts, PortConflictInfo(svc, m, "system")))
               [] branch = "compose" ->
                    DetectPortLoop(visits, k + 1, usedPortsMap, composePortsMap,
                                   Append(conflicts, PortConflictInfo(svc, m, "compose")))
               [] OTHER ->
                    DetectPortLoop(visits, k + 1, usedPortsMap,
                                   (m.Host :> svc) @@ composePortsMap, conflicts)

DetectPortConflicts(cfg, order, used) ==
    DetectPortLoop(VisitOrder(cfg, order), 1, used, <<>>, <<>>)

(***************************************************************************)
(* UnifiedConflictDetectorImpl.DetectNetworkConflicts                      *)
(***************************************************************************)
getServiceNetworkIPs(cfg, networkName) ==
    LET having == {s \in DOMAIN cfg.Services :
                      /\ networkName \in DOMAIN cfg.Services[s].Networks
                      /\ cfg.Services[s].Networks[networkName].IPv4Address # <<>>}
    IN  [s \in having |-> cfg.Services[s].Networks[networkName].IPv4Address]

ProjectPrefix(project) == IF project # <<>> THEN project \o <<"_">> ELSE <<>>

\* The conflicts one manifest network contributes: the name check, then the subnet check.
NetworkConflictsOf(cfg, netName, project, usedSubnetsMap, usedNetworkNames) ==
    LET network == cfg.Networks[netName]
    IN  IF Len(network.IPAM) = 0 THEN <<>>
        ELSE LET subnet == network.IPAM[1]
                 actualNetworkName == ProjectPrefix(project) \o <<netName>>
                 byName == IF actualNetworkName \in usedNetworkNames
                           THEN <<[NetworkName |-> netName, ConflictType |-> "name",
                                   OriginalSubnet |-> subnet,
                                   ServiceIPs |-> [s \in {} |-> <<>>],
                                   Resolution |-> <<>>]>>
                           ELSE <<>>
                 bySubnet == IF subnet \in usedSubnetsMap
                             THEN <<[NetworkName |-> netName, ConflictType |-> "subnet",
                                     OriginalSubnet |-> subnet,
                                     ServiceIPs |-> getServiceNetworkIPs(cfg, netName),
                                     Resolution |-> <<>>]>>
                             ELSE <<>>
             IN  IF subnet = EmptySubnet THEN <<>> ELSE byName \o bySubnet

RECURSIVE DetectNetworkLoop(_, _, _, _, _)
DetectNetworkLoop(cfg, order, project, usedSubnetsMap, usedNetworkNames) ==
    IF order = <<>> THEN <<>>
    ELSE NetworkConflictsOf(cfg, Head(order), project, usedSubnetsMap, usedNetworkNames)
            \o DetectNetworkLoop(cfg, Tail(order), project, usedSubnetsMap, usedNetworkNames)

DetectNetworkConflicts(cfg, order, project, nets) ==
    DetectNetworkLoop(cfg, order, project,
                      UNION {Range(n.Subnets) : n \in nets},
                      {n.Name : n \in nets})

\* HasConflicts with >= for >.
HasConflictsAlways(info) == Len(info.PortConflicts) >= 0 \/ Len(info.NetworkConflicts) >= 0

\* UnifiedConflictInfo.HasConflicts
HasConflicts(info) == Len(info.PortConflicts) > 0 \/ Len(info.NetworkConflicts) > 0

(***************************************************************************)
(* NetstatPortDetector.DetectUsedPortsInRange, PortAllocatorImpl           *)
(***************************************************************************)
DetectUsedPortsInRange(used, portRange) ==
    {port \in used : port >= portRange.Start /\ port <= portRange.End}

\* The scan `for port := Start; port <= End; port++`; 0 when it runs off the end.
RECURSIVE FirstFreePort(_, _, _)
FirstFreePort(port, end, excludePorts) ==
    IF port > end THEN 0
    ELSE IF port \notin excludePorts THEN port
    ELSE FirstFreePort(port + 1, end, excludePorts)

\* ExcludePorts without the reserved ports of the configuration.
ExcludePortsNoReserved(cfg, usedInRange) ==
    usedInRange \cup (IF cfg.ExcludePrivileged THEN 1..PrivilegedMax ELSE {})

\* ExcludePorts without the privileged ports.
ExcludePortsNoPrivileged(cfg, usedInRange) == usedInRange \cup cfg.Reserved

ExcludePorts(cfg, usedInRange) ==
    usedInRange \cup cfg.Reserved
        \cup (IF cfg.ExcludePrivileged THEN 1..PrivilegedMax ELSE {})

\* AllocatePort that reports an exhausted range as port 0 without an error.
AllocatePortNoError(cfg, used, probeFails) ==
    IF probeFails THEN [port |-> 0, err |-> "port_scan_failed"]
    ELSE [port |-> FirstFreePort(cfg.Range.Start, cfg.Range.End,
                                 ExcludePorts(cfg, DetectUsedPortsInRange(used, cfg.Range))),
          err |-> "none"]

\* AllocatePort: [port, err]; probeFails is the outcome of its probe call.
AllocatePort(cfg, used, probeFails) ==
    IF probeFails THEN [port |-> 0, err |-> "port_scan_failed"]
    ELSE LET found == FirstFreePort(cfg.Range.Start, cfg.Range.End,
                                    ExcludePorts(cfg, DetectUsedPortsInRange(used, cfg.Range)))
         IN  IF found # 0 THEN [port |-> found, err |-> "none"]
             ELSE [port |-> 0, err |-> "port_unavailable"]

(***************************************************************************)
(* UnifiedOverrideGeneratorImpl.resolvePortConflicts, one loop iteration   *)
(***************************************************************************)
\* StartPort that starts the search at the conflicting port itself.
StartPortAtConflict(conflictPort, rangeStart) ==
    IF conflictPort < rangeStart THEN rangeStart ELSE conflictPort

StartPort(conflictPort, rangeStart) ==
    IF conflictPort + 1 < rangeStart THEN rangeStart ELSE conflictPort + 1

PortResolutionInfo(conflict, allocatedPort, strat) ==
    [ResolvedPort |-> allocatedPort, Strategy |-> strat,
     Reason |-> <<"port", conflict.Port, "to", allocatedPort>>]

\* The outcome the probe script gives the k-th probe call from now: TRUE is a failure.
ProbeFails(script, k) == k <= Len(script) /\ script[k]

Drop(script, n) == [k \in 1..(IF Len(script) > n THEN Len(script) - n ELSE 0) |-> script[k + n]]

\* ResolvePortConflict that searches from the start of the range unless the
\* strategy is auto-increment.
ResolvePortConflictByStrategy(conflict, allocated, pcfg, used, strat, script) ==
    LET first == [Range |-> [Start |-> IF strat = "auto_increment"
                                       THEN StartPort(conflict.Port, pcfg.Range.Start)
                                       ELSE pcfg.Range.Start,
                             End |-> pcfg.Range.End],
                  ExcludePrivileged |-> pcfg.ExcludePrivileged,
                  Reserved |-> Range(allocated) \cup pcfg.Reserved]
        r1 == AllocatePort(first, used, ProbeFails(script, 1))
        second == [first EXCEPT !.Range.Start = pcfg.Range.Start]
        r2 == AllocatePort(second, used, ProbeFails(script, 2))
        r == IF r1.err = "none" THEN r1 ELSE r2
        probes == IF r1.err = "none" THEN 1 ELSE 2
        failed == Cardinality({k \in 1..probes : ProbeFails(script, k)})
    IN  IF r.err # "none"
        THEN [conflict |-> conflict, allocated |-> allocated,
              probes |-> probes, failures |-> failed]
        ELSE [conflict |-> [conflict EXCEPT !.Resolution =
                                <<PortResolutionInfo(conflict, r.port, strat)>>],
              allocated |-> Append(allocated, r.port),
              probes |-> probes, failures |-> failed]

\* [conflict, allocated, probes, failures]: the conflict after the iteration, the
\* allocatedPorts slice after it, the probe calls made and how many of them failed.
ResolvePortConflict(conflict, allocated, pcfg, used, strat, script) ==
    LET first == [Range |-> [Start |-> StartPort(conflict.Port, pcfg.Range.Start),
                             End |-> pcfg.Range.End],
                  ExcludePrivileged |-> pcfg.ExcludePrivileged,
                  Reserved |-> Range(allocated) \cup pcfg.Reserved]
        r1 == AllocatePort(first, used, ProbeFails(script, 1))
        second == [first EXCEPT !.Range.Start = pcfg.Range.Start]
        r2 == AllocatePort(second, used, ProbeFails(script, 2))
        r == IF r1.err = "none" THEN r1 ELSE r2
        probes == IF r1.err = "none" THEN 1 ELSE 2
        failed == Cardinality({k \in 1..probes : ProbeFails(script, k)})
    IN  IF r.err # "none"
        THEN [conflict |-> conflict, allocated |-> allocated,
              probes |-> probes, failures |-> failed]
        ELSE [conflict |-> [conflict EXCEPT !.Resolution =
                                <<PortResolutionInfo(conflict, r.port, strat)>>],
              allocated |-> Append(allocated, r.port),
              probes |-> probes, failures |-> failed]

(***************************************************************************)
(* UnifiedOverrideGeneratorImpl.allocateNewSubnet                          *)
(***************************************************************************)
BandSubnet(band, i) ==
    CASE band = "10" -> Subnet(10, i, 0, 0, 24)
      [] band = "192.168" -> Subnet(192, 168, i, 0, 24)
      [] band = "172" -> Subnet(172, i, 0, 0, 24)

\* One `for i := from; i <= 255; i++` scan: the first i at which the loop returns;
\* EmptySubnet when it runs off the end.
ScanBand(band, from, used) ==
    LET returns == {i \in from..255 :
                       /\ ~(band = "172" /\ i >= 17 /\ i <= 29)
                       /\ BandSubnet(band, i) \notin used}
    IN  IF returns = {} THEN EmptySubnet
        ELSE BandSubnet(band, CHOOSE i \in returns : \A j \in returns : i <= j)

\* allocateNewSubnet that gives up after the first band.
allocateNewSubnetFirstBand(used) == ScanBand("10", 20, used)

allocateNewSubnet(used) ==
    LET a == ScanBand("10", 20, used)
        b == ScanBand("192.168", 100, used)
        c == ScanBand("172", 30, used)
    IN  IF a # EmptySubnet THEN a
        ELSE IF b # EmptySubnet THEN b
        ELSE c

(***************************************************************************)
(* UnifiedOverrideGeneratorImpl.remapIPAddressesToNewSubnet                *)
(***************************************************************************)
\* remapIPAddressesToNewSubnet that keeps the last two octets of the address.
remapKeepingTwoOctets(oldSubnet, newSubnet, serviceIPs) ==
    LET newSubnetParts == newSubnet.addr
        kept == {s \in DOMAIN serviceIPs :
                    Len(serviceIPs[s]) = 4 /\ Len(newSubnetParts) = 4}
    IN  [s \in kept |-> <<newSubnetParts[1], newSubnetParts[2], serviceIPs[s][3],
                          serviceIPs[s][4]>>]

remapIPAddressesToNewSubnet(oldSubnet, newSubnet, serviceIPs) ==
    LET newSubnetParts == newSubnet.addr
        kept == {s \in DOMAIN serviceIPs :
                    Len(serviceIPs[s]) = 4 /\ Len(newSubnetParts) = 4}
    IN  [s \in kept |-> <<newSubnetParts[1], newSubnetParts[2], newSubnetParts[3],
                          serviceIPs[s][4]>>]

(***************************************************************************)
(* UnifiedOverrideGeneratorImpl.resolveNetworkConflicts, one loop iteration*)
(***************************************************************************)
NoServiceIPs == [s \in {} |-> <<>>]

\* [conflict, used]: the conflict and the usedSubnets map after the iteration.
ResolveNetworkConflict(conflict, used) ==
    LET newSubnet == allocateNewSubnet(used)
        newServiceIPs ==
            IF Cardinality(DOMAIN conflict.ServiceIPs) > 0
            THEN remapIPAddressesToNewSubnet(conflict.OriginalSubnet, newSubnet,
                                             conflict.ServiceIPs)
            ELSE NoServiceIPs
    IN  IF newSubnet = EmptySubnet
        THEN [conflict |-> conflict, used |-> used]
        ELSE [conflict |-> [conflict EXCEPT !.Resolution =
                                <<[ResolvedSubnet |-> newSubnet,
                                   ServiceIPs |-> newServiceIPs,
                                   Reason |-> <<"subnet", conflict.OriginalSubnet,
                                                "to", newSubnet>>]>>],
              used |-> used \cup {newSubnet}]

(***************************************************************************)
(* UnifiedOverrideGeneratorImpl.GenerateFromConflicts                      *)
(***************************************************************************)
\* The first index whose host port is p, 0 when there is none.
RECURSIVE FirstWithHost(_, _, _)
FirstWithHost(ports, i, p) ==
    IF i > Len(ports) THEN 0
    ELSE IF ports[i].Host = p THEN i
    ELSE FirstWithHost(ports, i + 1, p)

\* The inner loops of generatePortOverrides for one conflict.
ApplyPortResolution(ports, conflict) ==
    IF conflict.Resolution = <<>> THEN ports
    ELSE LET i == FirstWithHost(ports, 1, conflict.Port)
         IN  IF i = 0 THEN ports
             ELSE [ports EXCEPT ![i].Host = conflict.Resolution[1].ResolvedPort]

RECURSIVE ApplyPortResolutions(_, _)
ApplyPortResolutions(ports, conflicts) ==
    IF conflicts = <<>> THEN ports
    ELSE ApplyPortResolutions(ApplyPortResolution(ports, Head(conflicts)), Tail(conflicts))

\* The services generatePortOverrides writes an entry for.
PortOverrideServices(cfg, portConflicts) ==
    {c.ServiceName : c \in Range(portConflicts)} \cap DOMAIN cfg.Services

generatePortOverrides(cfg, portConflicts) ==
    [s \in PortOverrideServices(cfg, portConflicts) |->
        [Ports |-> ApplyPortResolutions(cfg.Services[s].Ports,
                       SelectSeq(portConflicts, LAMBDA c : c.ServiceName = s)),
         Networks |-> NoNetworks]]

\* The body of generateNetworkOverrides for one conflict, on [Services, Networks].
ApplyNetworkResolution(ov, conflict) ==
    IF conflict.Resolution = <<>> THEN ov
    ELSE LET res == conflict.Resolution[1]
             name == conflict.NetworkName
             touched == DOMAIN res.ServiceIPs
             old(s) == IF s \in DOMAIN ov.Services THEN ov.Services[s]
                       ELSE [Ports |-> <<>>, Networks |-> NoNetworks]
         IN  [Services |->
                 [s \in DOMAIN ov.Services \cup touched |->
                     IF s \in touched
                     THEN [old(s) EXCEPT !.Networks =
                              (name :> [IPv4Address |-> res.ServiceIPs[s]]) @@ old(s).Networks]
                     ELSE ov.Services[s]],
              Networks |-> (name :> [IPAM |-> <<res.ResolvedSubnet>>]) @@ ov.Networks]

RECURSIVE generateNetworkOverrides(_, _)
generateNetworkOverrides(ov, networkConflicts) ==
    IF networkConflicts = <<>> THEN ov
    ELSE generateNetworkOverrides(ApplyNetworkResolution(ov, Head(networkConflicts)),
                                  Tail(networkConflicts))

\* types.ConflictResolution, as populateMetadata fills it
ConflictResolution(conflict) ==
    [ServiceName |-> conflict.ServiceName, ConflictPort |-> conflict.Port,
     ResolvedPort |-> conflict.Resolution[1].ResolvedPort,
     Strategy |-> conflict.Resolution[1].Strategy,
     Reason |-> conflict.Resolution[1].Reason]

\* populateMetadata that records the first resolution only.
populateMetadataFirst(portConflicts) ==
    LET resolved == SelectSeq(portConflicts, LAMBDA c : c.Resolution # <<>>)
    IN  [k \in 1..(IF Len(resolved) > 0 THEN 1 ELSE 0) |-> ConflictResolution(resolved[k])]

populateMetadata(portConflicts) ==
    LET resolved == SelectSeq(portConflicts, LAMBDA c : c.Resolution # <<>>)
    IN  [k \in 1..Len(resolved) |-> ConflictResolution(resolved[k])]

GenerateFromConflicts(cfg, info) ==
    LET ov == generateNetworkOverrides(
                  [Services |-> generatePortOverrides(cfg, info.PortConflicts),
                   Networks |-> NoNetworks],
                  info.NetworkConflicts)
    IN  [Services |-> ov.Services, Networks |-> ov.Networks,
         Metadata |-> [Resolutions |-> populateMetadata(info.PortConflicts)]]

(***************************************************************************)
(* OverrideGeneratorImpl.ValidateOverride                                  *)
(***************************************************************************)
\* TRUE when validateServiceOverride returns an error
validateServiceOverride(serviceOverride) ==
    LET ports == serviceOverride.Ports
    IN  \E i \in 1..Len(ports) :
            \/ ports[i].Host # 0 /\ \E j \in 1..(i - 1) : ports[j].Host = ports[i].Host
            \/ ports[i].Host < 0 \/ ports[i].Host > MaxPort
            \/ ports[i].Container < 1 \/ ports[i].Container > MaxPort

\* TRUE when validateResolutionUniqueness returns an error
validateResolutionUniqueness(resolutions) ==
    \E i, j \in 1..Len(resolutions) :
        i < j /\ resolutions[i].ResolvedPort = resolutions[j].ResolvedPort

\* TRUE when ValidateOverride returns an error
ValidateOverride(ov) ==
    IF Cardinality(DOMAIN ov.Services) = 0 THEN FALSE
    ELSE \/ \E s \in DOMAIN ov.Services : validateServiceOverride(ov.Services[s])
         \/ validateResolutionUniqueness(ov.Metadata.Resolutions)

(***************************************************************************)
(* OverrideGeneratorImpl.generateOverrideYAML                              *)
(***************************************************************************)
\* The document as the YAML text lays it out: per service the `ports: !reset`
\* list of "host:container" entries and the networks block, then the networks.
generateOverrideYAML(ov) ==
    [services |->
        [s \in DOMAIN ov.Services |->
            [reset |-> Len(ov.Services[s].Ports) > 0,
             ports |-> LET kept == SelectSeq(ov.Services[s].Ports, LAMBDA m : m.Host # 0)
                       IN  [k \in 1..Len(kept) |-> <<kept[k].Host, kept[k].Container>>],
             networks |-> [n \in DOMAIN ov.Services[s].Networks |->
                              ov.Services[s].Networks[n].IPv4Address]]],
     networks |-> [n \in DOMAIN ov.Networks |-> ov.Networks[n].IPAM]]

(***************************************************************************)
(* Detection followed by resolution, with every probe call answering       *)
(***************************************************************************)
\* The loop of resolvePortConflicts from the i-th conflict on.
RECURSIVE resolvePortConflicts(_, _, _, _, _, _)
resolvePortConflicts(conflicts, i, allocated, pcfg, used, strat) ==
    IF i > Len(conflicts) THEN conflicts
    ELSE LET r == ResolvePortConflict(conflicts[i], allocated, pcfg, used, strat, <<>>)
         IN  resolvePortConflicts([conflicts EXCEPT ![i] = r.conflict], i + 1,
                                  r.allocated, pcfg, used, strat)

\* The loop of resolveNetworkConflicts from the i-th conflict on.
RECURSIVE resolveNetworkConflicts(_, _, _)
resolveNetworkConflicts(conflicts, i, used) ==
    IF i > Len(conflicts) THEN conflicts
    ELSE LET r == ResolveNetworkConflict(conflicts[i], used)
         IN  resolveNetworkConflicts([conflicts EXCEPT ![i] = r.conflict], i + 1, r.used)

\* DetectConflicts, then ResolveConflicts, for one order of the two map walks.
EngineResult(cfg, sOrder, nOrder, project, used, nets, pcfg, strat) ==
    [PortConflicts |->
        resolvePortConflicts(DetectPortConflicts(cfg, sOrder, used), 1, <<>>, pcfg, used, strat),
     NetworkConflicts |->
        resolveNetworkConflicts(DetectNetworkConflicts(cfg, nOrder, project, nets), 1, {})]

(***************************************************************************)
(* Initial states: the inputs of one run                                   *)
(***************************************************************************)
NoOverride == <<>>
NoFile == <<>>

TotalBindings(services) ==
    LET names == DOMAIN services
    IN  IF names = {} THEN 0
        ELSE Len(VisitOrder([Services |-> services], CHOOSE o \in Perms(names) : TRUE))

PortRanges == {[Start |-> a, End |-> b] : a, b \in PortSpace} \ {r \in [Start : PortSpace, End : PortSpace] : r.Start > r.End}

\* Outcomes of the probe calls made during allocation; calls past the script succeed.
ProbeScripts == {sc \in SeqsUpTo(BOOLEAN, MaxProbeCalls) : sc = <<>> \/ sc[Len(sc)]}

Binding(host) == [Host |-> host, Container |-> 80, Protocol |-> "tcp"]

\* Services are listed with the longer port lists first: detection walks them in
\* every order, so the other assignments of the same lists add nothing.
LongestFirst(svcs) ==
    \A i, j \in 1..MaxServices :
        i < j => Len(svcs[ServiceNameList[i]].Ports) >= Len(svcs[ServiceNameList[j]].Ports)

\* A manifest with port bindings only.
PortManifests ==
    {[Services |-> svcs, Networks |-> NoNetworks] :
        svcs \in {f \in [ServiceNames -> [Ports : SeqsUpTo(PortMapping, MaxBindings),
                                          Networks : {NoNetworks}]] :
                     TotalBindings(f) <= MaxTotalBindings /\ LongestFirst(f)}}

\* The static addresses of a manifest in which at most one service has one.
StaticIPChoices ==
    {[s \in ServiceNames |-> NoNetworks]}
        \cup {[s \in ServiceNames |-> IF s = t THEN (n :> [IPv4Address |-> ip]) ELSE NoNetworks] :
                 t \in ServiceNames, n \in NetworkNames, ip \in IPChoices \cup {<<>>}}

IPAMChoices == {<<>>, <<EmptySubnet>>} \cup {<<sn>> : sn \in ManifestSubnets}

\* A manifest with networks only.
NetworkManifests ==
    {[Services |-> [s \in ServiceNames |-> [Ports |-> <<>>, Networks |-> ips[s]]],
      Networks |-> nets] :
        ips \in StaticIPChoices, nets \in [NetworkNames -> [IPAM : IPAMChoices]]}

InitRun ==
    /\ phase = "Idle"
    /\ dryRun = <<>>
    /\ conflictInfo = [PortConflicts |-> <<>>, NetworkConflicts |-> <<>>]
    /\ serviceOrder = <<>>
    /\ networkOrder = <<>>
    /\ portIdx = 0
    /\ allocatedPorts = <<>>
    /\ netIdx = 0
    /\ usedSubnets = {}
    /\ detectProbes = [port |-> "uncalled", network |-> "uncalled"]
    /\ probeFailures = 0
    /\ override = NoOverride
    /\ written = NoFile
    /\ runErr = "none"
    /\ calls = {}

\* No function is called on its own in a run of the command.
NoCall ==
    /\ callArgs = [fn |-> "none"]
    /\ callResult = <<>>

\* What createPortConfig builds for the default --port-range, narrowed to PortSpace.
DefaultPortConfig ==
    [Range |-> [Start |-> PrivilegedMax + 1, End |-> PrivilegedMax + SpanAbove],
     Reserved |-> {}, ExcludePrivileged |-> TRUE]

\* Port bindings against the host: any manifest, probe output and port configuration.
InitPorts ==
    /\ config \in PortManifests
    /\ usedPorts \in {u \in SUBSET PortSpace : Cardinality(u) <= 2}
    /\ dockerNets = {}
    /\ projectName = <<>>
    /\ portConfig \in [Range : PortRanges,
                       Reserved : {{}, {PrivilegedMax + 1}},
                       ExcludePrivileged : BOOLEAN]
    /\ strategy = "auto_increment"
    /\ probeScript = <<>>

\* Manifest networks against the container networks that exist.
InitNetworks ==
    /\ config \in NetworkManifests
    /\ usedPorts = {}
    /\ dockerNets \in {d \in SUBSET NetworkInfo : Cardinality(d) <= MaxDockerNets}
    /\ projectName \in ProjectNames
    /\ portConfig = DefaultPortConfig
    /\ strategy = "auto_increment"
    /\ probeScript = <<>>

\* Ports and networks together, every strategy flag, probes that fail during allocation.
InitMixed ==
    /\ config \in
         {[Services |->
              [s \in ServiceNames |->
                  IF s = ServiceNameList[1] THEN [Ports |-> p1, Networks |-> n1]
                  ELSE IF s = ServiceNameList[2] THEN [Ports |-> p2, Networks |-> NoNetworks]
                  ELSE [Ports |-> <<>>, Networks |-> NoNetworks]],
           Networks |-> [n \in NetworkNames |->
                            [IPAM |-> IF n = NetworkNameList[1] THEN ipam ELSE <<>>]]] :
             p1 \in {<<Binding(PrivilegedMax + 1)>>,
                     <<Binding(PrivilegedMax + 1), Binding(PrivilegedMax + 2)>>},
             p2 \in {<<>>, <<Binding(PrivilegedMax + 1)>>},
             n1 \in {NoNetworks, (NetworkNameList[1] :> [IPv4Address |-> <<172, 20, 0, 5>>])},
             ipam \in {<<>>, <<Subnet(172, 20, 0, 0, 24)>>}}
    /\ usedPorts \in {{}, {PrivilegedMax + 1}, {PrivilegedMax + 1, PrivilegedMax + 2}}
    /\ dockerNets \in {{}, {[Name |-> <<"bridge">>, Subnets |-> <<Subnet(172, 20, 0, 0, 24)>>]}}
    /\ projectName = <<>>
    /\ portConfig \in {[DefaultPortConfig EXCEPT !.Range.End = e] :
                          e \in {PrivilegedMax + 1, PrivilegedMax + 2}}
    /\ strategy \in Strategies
    /\ probeScript \in ProbeScripts

\* The concrete scenarios of the design: two services on port 3000 with range
\* [3000,4000]; port 3000 bound on the host with range [8000,9999]; a range
\* [8000,8002] with every port taken.
ScenarioManifest(p1, p2) ==
    [Services |-> [s \in ServiceNames |->
                      [Ports |-> IF s = ServiceNameList[1] THEN p1
                                 ELSE IF s = ServiceNameList[2] THEN p2 ELSE <<>>,
                       Networks |-> NoNetworks]],
     Networks |-> NoNetworks]

InitScenarios ==
    /\ \/ /\ config = ScenarioManifest(<<Binding(3000)>>, <<Binding(3000)>>)
          /\ usedPorts = {}
          /\ portConfig = [DefaultPortConfig EXCEPT !.Range = [Start |-> 3000, End |-> 4000]]
       \/ /\ config = ScenarioManifest(<<Binding(3000)>>, <<>>)
          /\ usedPorts = {3000}
          /\ portConfig = [DefaultPortConfig EXCEPT !.Range = [Start |-> 8000, End |-> 9999]]
       \/ /\ config = ScenarioManifest(<<Binding(3000)>>, <<Binding(8001)>>)
          /\ usedPorts = {3000, 8000, 8001}
          /\ portConfig = [DefaultPortConfig EXCEPT !.Range = [Start |-> 8000, End |-> 8002],
                                                     !.Reserved = {8002}]
    /\ dockerNets = {}
    /\ projectName = <<>>
    /\ strategy = "auto_increment"
    /\ probeScript = <<>>

\* Static addresses on a network whose subnet an existing network already has:
\* subnets of two mask lengths, one written with host bits set, addresses inside
\* and outside the subnet.
InitRemap ==
    /\ \E sn \in {Subnet(172, 20, 5, 0, 24), Subnet(172, 20, 5, 64, 24), Subnet(172, 20, 0, 0, 16)} :
          /\ config \in
               {[Services |->
                    [s \in ServiceNames |->
                        [Ports |-> <<>>,
                         Networks |->
                            IF s = ServiceNameList[1]
                            THEN (NetworkNameList[1] :> [IPv4Address |-> ip1])
                            ELSE IF s = ServiceNameList[2] /\ ip2 # <<>>
                            THEN (NetworkNameList[1] :> [IPv4Address |-> ip2])
                            ELSE NoNetworks]],
                 Networks |-> [n \in NetworkNames |->
                                  [IPAM |-> IF n = NetworkNameList[1] THEN <<sn>> ELSE <<>>]]] :
                   ip1 \in {<<172, 20, 5, 7>>, <<172, 20, 5, 70>>, <<172, 20, 3, 5>>, <<10, 9, 9, 9>>},
                   ip2 \in {<<>>, <<172, 20, 5, 8>>, <<172, 20, 4, 5>>, <<172, 21, 0, 8>>}}
          /\ dockerNets = {[Name |-> <<"bridge">>, Subnets |-> <<sn>>]}
    /\ usedPorts = {}
    /\ projectName = <<>>
    /\ portConfig = DefaultPortConfig
    /\ strategy = "auto_increment"
    /\ probeScript = <<>>

\* Manifest subnets against existing subnets of another mask length that cover them.
InitOverlap ==
    /\ config \in
         {[Services |-> [s \in ServiceNames |-> [Ports |-> <<>>, Networks |-> NoNetworks]],
           Networks |-> [n \in NetworkNames |->
                            [IPAM |-> IF n = NetworkNameList[1] THEN <<sn1>>
                                      ELSE IF n = NetworkNameList[2] THEN ipam2
                                      ELSE <<>>]]] :
             sn1 \in {Subnet(10, 20, 0, 0, 24), Subnet(172, 20, 5, 0, 24), Subnet(10, 20, 0, 0, 16)},
             ipam2 \in {<<>>, <<Subnet(172, 20, 0, 0, 16)>>}}
    /\ dockerNets \in
         {{[Name |-> <<"bridge">>, Subnets |-> subs]} :
             subs \in {<<Subnet(10, 20, 0, 0, 16)>>,
                       <<Subnet(172, 20, 0, 0, 16)>>,
                       <<Subnet(172, 20, 0, 0, 16), Subnet(10, 20, 0, 0, 16)>>,
                       <<Subnet(10, 20, 0, 0, 24)>>}}
    /\ usedPorts = {}
    /\ projectName = <<>>
    /\ portConfig = DefaultPortConfig
    /\ strategy = "auto_increment"
    /\ probeScript = <<>>

Init ==
    InitRun /\ NoCall
        /\ (InitPorts \/ InitNetworks \/ InitMixed \/ InitScenarios \/ InitRemap \/ InitOverlap)

(***************************************************************************)
(* allocateNewSubnet on the usedSubnets maps resolveNetworkConflicts builds *)
(***************************************************************************)
\* The subnets allocateNewSubnet hands out, in the order it hands them out.
AllocationOrder ==
    [i \in 1..236 |-> Subnet(10, 19 + i, 0, 0, 24)]
        \o [i \in 1..156 |-> Subnet(192, 168, 99 + i, 0, 24)]
        \o [i \in 1..226 |-> Subnet(172, 29 + i, 0, 0, 24)]

\* usedSubnets after k iterations of resolveNetworkConflicts that each allocated.
UsedAfter(k) == {AllocationOrder[i] : i \in 1..k}

\* A run that is not under way: only the function call is explored.
InitNoRun ==
    /\ InitRun
    /\ config = ScenarioManifest(<<>>, <<>>)
    /\ usedPorts = {}
    /\ dockerNets = {}
    /\ projectName = <<>>
    /\ portConfig = DefaultPortConfig
    /\ strategy = "auto_increment"
    /\ probeScript = <<>>

InitSubnets ==
    /\ InitNoRun
    /\ callArgs \in {[fn |-> "allocateNewSubnet", used |-> UsedAfter(k)] :
                        k \in 0..Len(AllocationOrder)}
    /\ callResult = <<>>

\* One call of allocateNewSubnet.
CallAllocateNewSubnet ==
    /\ callArgs.fn = "allocateNewSubnet"
    /\ callResult = <<>>
    /\ callResult' = <<allocateNewSubnet(callArgs.used)>>
    /\ UNCHANGED <<config, usedPorts, dockerNets, portConfig, projectName, phase, strategy,
                   dryRun, conflictInfo, serviceOrder, networkOrder, portIdx, allocatedPorts,
                   netIdx, usedSubnets, detectProbes, probeScript, probeFailures, override,
                   written, runErr, calls, callArgs>>

NextSubnets == CallAllocateNewSubnet

SpecSubnets == InitSubnets /\ [][NextSubnets]_vars

(***************************************************************************)
(* ConflictResolverImpl.resolveByRangeAllocation                           *)
(***************************************************************************)
\* types.ConflictResolution, as resolveByRangeAllocation fills it
RangeResolution(conflict, resolvedPort, serviceBasePort) ==
    [ConflictPort |-> conflict.Port, ResolvedPort |-> resolvedPort,
     ServiceName |-> conflict.ServiceName, Strategy |-> "range_allocation",
     Reason |-> <<"range", conflict.ServiceName, serviceBasePort>>]

\* serviceGroups[serviceName]
ServiceGroup(conflicts, serviceName) ==
    SelectSeq(conflicts, LAMBDA c : c.ServiceName = serviceName)

\* The resolutions of the g-th group of the walk over serviceGroups.
GroupResolutions(conflicts, groupOrder, g) ==
    LET serviceConflicts == ServiceGroup(conflicts, groupOrder[g])
        serviceBasePort == basePort + portIncrement * (g - 1)
    IN  [i \in 1..Len(serviceConflicts) |->
            RangeResolution(serviceConflicts[i], serviceBasePort + (i - 1), serviceBasePort)]

RECURSIVE RangeAllocationLoop(_, _, _)
RangeAllocationLoop(conflicts, groupOrder, g) ==
    IF g > Len(groupOrder) THEN <<>>
    ELSE GroupResolutions(conflicts, groupOrder, g)
             \o RangeAllocationLoop(conflicts, groupOrder, g + 1)

\* groupOrder is the order in which the map serviceGroups is walked.
resolveByRangeAllocation(conflicts, groupOrder) ==
    RangeAllocationLoop(conflicts, groupOrder, 1)

\* A conflict list: n1 conflicts of the first service, then n2 of the second.
ConflictList(n1, n2) ==
    [k \in 1..(n1 + n2) |->
        [ServiceName |-> IF k <= n1 THEN ServiceNameList[1] ELSE ServiceNameList[2],
         Port |-> 3000 + k]]

InitRangeAllocation ==
    /\ callArgs \in {[fn |-> "resolveByRangeAllocation", conflicts |-> ConflictList(n1, n2)] :
                        n1 \in 0..MaxGroupConflicts, n2 \in 0..MaxOtherConflicts}
    /\ callResult = <<>>

\* One call of resolveByRangeAllocation.
CallResolveByRangeAllocation ==
    /\ callArgs.fn = "resolveByRangeAllocation"
    /\ callResult = <<>>
    /\ \E groupOrder \in Perms({c.ServiceName : c \in Range(callArgs.conflicts)}) :
          callResult' = <<[groupOrder |-> groupOrder,
                           resolutions |-> resolveByRangeAllocation(callArgs.conflicts,
                                                                    groupOrder)]>>
    /\ UNCHANGED <<config, usedPorts, dockerNets, portConfig, projectName, phase, strategy,
                   dryRun, conflictInfo, serviceOrder, networkOrder, portIdx, allocatedPorts,
                   netIdx, usedSubnets, detectProbes, probeScript, probeFailures, override,
                   written, runErr, calls, callArgs>>

(***************************************************************************)
(* PortResolutionAnalyzerImpl.OptimizeResolutions                          *)
(***************************************************************************)
\* NextUnusedPort without the loop: the port stays where it is.
NextUnusedPortKeep(port, used) == port

\* The inner loop: the port the resolution ends on, MaxPort + 1 when it ran out.
NextUnusedPort(port, used) ==
    LET stops == {q \in port..(port + Cardinality(used)) : q \notin used \/ q > MaxPort}
    IN  CHOOSE q \in stops : \A r \in stops : q <= r

\* The loop over the sorted resolutions from the k-th on.
RECURSIVE OptimizeLoop(_, _, _)
OptimizeLoop(resolutions, k, used) ==
    IF k > Len(resolutions) THEN <<>>
    ELSE LET resolution == resolutions[k]
             originalResolvedPort == resolution.ResolvedPort
             port == NextUnusedPort(originalResolvedPort, used)
             moved == [resolution EXCEPT
                          !.ResolvedPort = port,
                          !.Reason = IF port # originalResolvedPort
                                     THEN @ \o <<"adjusted", originalResolvedPort, port>>
                                     ELSE @]
         IN  IF port <= MaxPort
             THEN <<moved>> \o OptimizeLoop(resolutions, k + 1, used \cup {port})
             ELSE OptimizeLoop(resolutions, k + 1, used)

\* OptimizeResolutions on the slice as sort.Slice left it.
OptimizeResolutions(sorted) == OptimizeLoop(sorted, 1, {})

\* The orders sort.Slice may leave the slice in: ascending by resolved port,
\* equal ports in any order.
SortedByResolvedPort(resolutions) ==
    {[k \in 1..Len(resolutions) |-> resolutions[o[k]]] :
        o \in {o \in Perms(1..Len(resolutions)) :
                  \A i, j \in 1..Len(resolutions) :
                      i < j => resolutions[o[i]].ResolvedPort <= resolutions[o[j]].ResolvedPort}}

\* Resolved ports at the low end of the default range and at the top of the port space.
ResolvedPortChoices == {basePort, basePort + 1, MaxPort - 1, MaxPort}

InitOptimize ==
    /\ callArgs \in
         {[fn |-> "OptimizeResolutions",
           resolutions |-> [k \in 1..Len(ports) |->
                               [ServiceName |-> ServiceNameList[k], ConflictPort |-> 3000 + k,
                                ResolvedPort |-> ports[k], Strategy |-> "auto_increment",
                                Reason |-> <<"port", 3000 + k, "to", ports[k]>>]]] :
             ports \in SeqsUpTo(ResolvedPortChoices, MaxResolutions)}
    /\ callResult = <<>>

\* One call of OptimizeResolutions.
CallOptimizeResolutions ==
    /\ callArgs.fn = "OptimizeResolutions"
    /\ callResult = <<>>
    /\ \E sorted \in SortedByResolvedPort(callArgs.resolutions) :
          callResult' = <<[sorted |-> sorted, optimized |-> OptimizeResolutions(sorted)]>>
    /\ UNCHANGED <<config, usedPorts, dockerNets, portConfig, projectName, phase, strategy,
                   dryRun, conflictInfo, serviceOrder, networkOrder, portIdx, allocatedPorts,
                   netIdx, usedSubnets, detectProbes, probeScript, probeFailures, override,
                   written, runErr, calls, callArgs>>

InitPlanner == InitNoRun /\ (InitRangeAllocation \/ InitOptimize)

NextPlanner == CallResolveByRangeAllocation \/ CallOptimizeResolutions

SpecPlanner == InitPlanner /\ [][NextPlanner]_vars

(***************************************************************************)
(* upCmd.RunE                                                              *)
(***************************************************************************)
\* RunE up to the call of DetectConflicts.
BeginRun ==
    /\ phase = "Idle"
    /\ phase' = "Detecting"
    /\ UNCHANGED <<inputs, strategy, dryRun, conflictInfo, serviceOrder, networkOrder,
                   portIdx, allocatedPorts, netIdx, usedSubnets, detectProbes,
                   probeScript, probeFailures, override, written, runErr, calls>>

\* DetectConflicts that only warns when the host port probe fails.
DetectConflictsPortWarn(cfg, sOrder, nOrder, project, used, nets, portProbeFails, netProbeFails) ==
    [info |-> <<[PortConflicts |-> IF portProbeFails THEN <<>>
                                   ELSE DetectPortConflicts(cfg, sOrder, used),
                 NetworkConflicts |->
                     IF netProbeFails THEN <<>>
                     ELSE DetectNetworkConflicts(cfg, nOrder, project, nets)]>>,
     err |-> "none"]

\* DetectConflicts that returns the error of DetectNetworkConflicts.
DetectConflictsNetFatal(cfg, sOrder, nOrder, project, used, nets, portProbeFails, netProbeFails) ==
    IF portProbeFails THEN [info |-> <<>>, err |-> "port_detect_failed"]
    ELSE IF netProbeFails THEN [info |-> <<>>, err |-> "network_detect_failed"]
    ELSE [info |-> <<[PortConflicts |-> DetectPortConflicts(cfg, sOrder, used),
                      NetworkConflicts |->
                          DetectNetworkConflicts(cfg, nOrder, project, nets)]>>,
          err |-> "none"]

\* UnifiedConflictDetectorImpl.DetectConflicts: [info, err]
DetectConflictsResult(cfg, sOrder, nOrder, project, used, nets, portProbeFails, netProbeFails) ==
    IF portProbeFails
    THEN [info |-> <<>>, err |-> "port_detect_failed"]
    ELSE [info |-> <<[PortConflicts |-> DetectPortConflicts(cfg, sOrder, used),
                      NetworkConflicts |->
                          IF netProbeFails THEN <<>>
                          ELSE DetectNetworkConflicts(cfg, nOrder, project, nets)]>>,
          err |-> "none"]

\* DetectConflicts and the branch RunE takes on its result.
DetectConflicts ==
    /\ phase = "Detecting"
    /\ \E sOrder \in Perms(DOMAIN config.Services), nOrder \in Perms(DOMAIN config.Networks),
          portProbeFails \in BOOLEAN, netProbeFails \in BOOLEAN :
          LET r == DetectConflictsResult(config, sOrder, nOrder, projectName, usedPorts,
                                         dockerNets, portProbeFails, netProbeFails)
          IN  /\ serviceOrder' = sOrder
              /\ networkOrder' = nOrder
              /\ detectProbes' = [port |-> IF portProbeFails THEN "failed" ELSE "ok",
                                  network |-> IF portProbeFails THEN "uncalled"
                                              ELSE IF netProbeFails THEN "failed" ELSE "ok"]
              /\ IF r.err # "none"
                 THEN /\ phase' = "Failed"
                      /\ runErr' = "detect_failed"
                      /\ calls' = calls \cup {"DetectConflicts"}
                      /\ UNCHANGED <<conflictInfo, portIdx, netIdx>>
                 ELSE /\ conflictInfo' = r.info[1]
                      /\ runErr' = "none"
                      /\ IF ~HasConflicts(r.info[1])
                         THEN /\ phase' = "Done"
                              /\ calls' = calls \cup {"DetectConflicts"}
                              /\ UNCHANGED <<portIdx, netIdx>>
                         ELSE /\ phase' = "Resolving"
                              /\ calls' = calls \cup {"DetectConflicts", "ResolveConflicts"}
                              /\ portIdx' = 1
                              /\ netIdx' = 1
    /\ UNCHANGED <<inputs, strategy, dryRun, allocatedPorts, usedSubnets, probeScript,
                   probeFailures, override, written>>

\* One iteration of the loop of resolvePortConflicts.
ResolvePort ==
    /\ phase = "Resolving"
    /\ portIdx <= Len(conflictInfo.PortConflicts)
    /\ LET r == ResolvePortConflict(conflictInfo.PortConflicts[portIdx], allocatedPorts,
                                    portConfig, usedPorts, strategy, probeScript)
       IN  /\ conflictInfo' = [conflictInfo EXCEPT !.PortConflicts[portIdx] = r.conflict]
           /\ allocatedPorts' = r.allocated
           /\ probeScript' = Drop(probeScript, r.probes)
           /\ probeFailures' = probeFailures + r.failures
    /\ portIdx' = portIdx + 1
    /\ UNCHANGED <<inputs, phase, strategy, dryRun, serviceOrder, networkOrder, netIdx,
                   usedSubnets, detectProbes, override, written, runErr, calls>>

\* One iteration of the loop of resolveNetworkConflicts.
ResolveNetwork ==
    /\ phase = "Resolving"
    /\ portIdx > Len(conflictInfo.PortConflicts)
    /\ netIdx <= Len(conflictInfo.NetworkConflicts)
    /\ LET r == ResolveNetworkConflict(conflictInfo.NetworkConflicts[netIdx], usedSubnets)
       IN  /\ conflictInfo' = [conflictInfo EXCEPT !.NetworkConflicts[netIdx] = r.conflict]
           /\ usedSubnets' = r.used
    /\ netIdx' = netIdx + 1
    /\ UNCHANGED <<inputs, phase, strategy, dryRun, serviceOrder, networkOrder, portIdx,
                   allocatedPorts, detectProbes, probeScript, probeFailures, override,
                   written, runErr, calls>>

\* ResolveConflicts that returns before its loops are over.
ResolveConflictsReturnEarly ==
    /\ phase = "Resolving"
    /\ phase' = "Building"
    /\ UNCHANGED <<inputs, strategy, dryRun, conflictInfo, serviceOrder, networkOrder,
                   portIdx, allocatedPorts, netIdx, usedSubnets, detectProbes,
                   probeScript, probeFailures, override, written, runErr, calls>>

\* ResolveConflicts returns nil; RunE goes on to build the override.
ResolveConflictsReturn ==
    /\ phase = "Resolving"
    /\ portIdx > Len(conflictInfo.PortConflicts)
    /\ netIdx > Len(conflictInfo.NetworkConflicts)
    /\ phase' = "Building"
    /\ UNCHANGED <<inputs, strategy, dryRun, conflictInfo, serviceOrder, networkOrder,
                   portIdx, allocatedPorts, netIdx, usedSubnets, detectProbes,
                   probeScript, probeFailures, override, written, runErr, calls>>

\* RunE calls GenerateFromConflicts.
Generate ==
    /\ phase = "Building"
    /\ override' = <<GenerateFromConflicts(config, conflictInfo)>>
    /\ phase' = "Validating"
    /\ calls' = calls \cup {"GenerateFromConflicts"}
    /\ UNCHANGED <<inputs, strategy, dryRun, conflictInfo, serviceOrder, networkOrder,
                   portIdx, allocatedPorts, netIdx, usedSubnets, detectProbes,
                   probeScript, probeFailures, written, runErr>>

\* Validate that goes on to the dry-run flag whatever ValidateOverride returns.
ValidateIgnored ==
    /\ phase = "Validating"
    /\ calls' = calls \cup {"ValidateOverride"}
    /\ runErr' = "none"
    /\ \E flag \in BOOLEAN :
          /\ dryRun' = <<flag>>
          /\ phase' = IF flag THEN "Done" ELSE "Writing"
    /\ UNCHANGED <<inputs, strategy, conflictInfo, serviceOrder, networkOrder, portIdx,
                   allocatedPorts, netIdx, usedSubnets, detectProbes, probeScript,
                   probeFailures, override, written>>

\* RunE calls ValidateOverride, then reads the dry-run flag.
Validate ==
    /\ phase = "Validating"
    /\ calls' = calls \cup {"ValidateOverride"}
    /\ IF ValidateOverride(override[1])
       THEN /\ phase' = "Failed"
            /\ runErr' = "validate_failed"
            /\ UNCHANGED dryRun
       ELSE /\ runErr' = "none"
            /\ \E flag \in BOOLEAN :
                  /\ dryRun' = <<flag>>
                  /\ phase' = IF flag THEN "Done" ELSE "Writing"
    /\ UNCHANGED <<inputs, strategy, conflictInfo, serviceOrder, networkOrder, portIdx,
                   allocatedPorts, netIdx, usedSubnets, detectProbes, probeScript,
                   probeFailures, override, written>>

\* RunE calls WriteOverrideFile; the file system may refuse the write.
Write ==
    /\ phase = "Writing"
    /\ calls' = calls \cup {"WriteOverrideFile"}
    /\ \E writeFails \in BOOLEAN :
          IF writeFails
          THEN /\ phase' = "Failed"
               /\ runErr' = "write_failed"
               /\ UNCHANGED written
          ELSE /\ phase' = "Done"
               /\ runErr' = "none"
               /\ written' = <<generateOverrideYAML(override[1])>>
    /\ UNCHANGED <<inputs, strategy, dryRun, conflictInfo, serviceOrder, networkOrder,
                   portIdx, allocatedPorts, netIdx, usedSubnets, detectProbes,
                   probeScript, probeFailures, override>>

Next ==
    \/ BeginRun
    \/ DetectConflicts
    \/ ResolvePort
    \/ ResolveNetwork
    \/ ResolveConflictsReturn
    \/ Generate
    \/ Validate
    \/ Write

Spec == Init /\ [][Next]_vars

\* The runs with ports and networks together and the concrete scenarios.
InitFair == InitRun /\ NoCall /\ (InitMixed \/ InitScenarios)

\* RunE is straight-line code: whenever a step is enabled it is eventually taken.
FairSpec == InitFair /\ [][Next]_vars /\ WF_vars(Next)

(***************************************************************************)
(* Properties                                                              *)
(***************************************************************************)
Detected == "DetectConflicts" \in calls /\ runErr # "detect_failed"
PortConflicts == conflictInfo.PortConflicts
NetworkConflicts == conflictInfo.NetworkConflicts
Resolved(c) == c.Resolution # <<>>
Privileged(pcfg) == IF pcfg.ExcludePrivileged THEN 1..PrivilegedMax ELSE {}
InRange(pcfg) == pcfg.Range.Start..pcfg.Range.End
Min(S) == CHOOSE x \in S : \A y \in S : x <= y

\* The resolved ports of the conflicts before the i-th.
ResolvedBefore(i) ==
    {PortConflicts[j].Resolution[1].ResolvedPort :
        j \in {k \in 1..(i - 1) : Resolved(PortConflicts[k])}}

\* The ports of the configured range that the i-th conflict may be given.
FreeFor(i) ==
    InRange(portConfig)
        \ (usedPorts \cup portConfig.Reserved \cup ResolvedBefore(i) \cup Privileged(portConfig))

\* C1: every resolved port attached to a conflict is not in use on the host, is
\* not reserved by the configuration, and is the resolved port of no other
\* conflict of the run.
C1_ResolvedPortsExcluded ==
    \A i \in 1..Len(PortConflicts) :
        Resolved(PortConflicts[i]) =>
            LET p == PortConflicts[i].Resolution[1].ResolvedPort
            IN  /\ p \notin usedPorts
                /\ p \notin portConfig.Reserved
                /\ \A j \in 1..Len(PortConflicts) :
                      (j # i /\ Resolved(PortConflicts[j]))
                          => PortConflicts[j].Resolution[1].ResolvedPort # p

\* C1 witness: resolution is over, two conflicts carry a resolved port, and the
\* range holds a port in use and a reserved port that had to be stepped over.
C1_Witness ==
    /\ phase = "Building"
    /\ Cardinality({i \in 1..Len(PortConflicts) : Resolved(PortConflicts[i])}) >= 2
    /\ usedPorts \cap InRange(portConfig) # {}
    /\ portConfig.Reserved \cap InRange(portConfig) # {}

\* What the claim C3 says of the k-th visited binding, with `claimants` the
\* earlier bindings that count as claiming its host port.
Classified(visits, k, claimants) ==
    LET host == visits[k].Mapping.Host
    IN  IF host = 0 THEN "none"
        ELSE IF host \in usedPorts THEN "system"
        ELSE IF \E j \in claimants : visits[j].Mapping.Host = host THEN "compose"
        ELSE "none"

ConflictKey(c) == <<c.ServiceName, c.Port, c.Type>>

\* The earlier bindings that count as claimants for the k-th: all of them, or
\* only those of other services.
Claimants(visits, k, ownToo) ==
    {j \in 1..(k - 1) : ownToo \/ visits[j].ServiceName # visits[k].ServiceName}

RECURSIVE ExpectedKeys(_, _, _)
ExpectedKeys(visits, k, ownToo) ==
    IF k > Len(visits) THEN <<>>
    ELSE LET kind == Classified(visits, k, Claimants(visits, k, ownToo))
         IN  (IF kind = "none" THEN <<>>
              ELSE <<<<visits[k].ServiceName, visits[k].Mapping.Host, kind>>>>)
                 \o ExpectedKeys(visits, k + 1, ownToo)

DetectedKeys == [i \in 1..Len(PortConflicts) |-> ConflictKey(PortConflicts[i])]

Visits == VisitOrder(config, serviceOrder)

\* C3 as amended: the conflict list holds, in visit order, nothing for a binding
\* with host port 0, one host-system conflict for a binding whose port is in
\* use, and otherwise one intra-manifest conflict exactly when a binding
\* visited earlier (of another service or of the same one) has the same host port.
C3_Classification ==
    Detected =>
        DetectedKeys = ExpectedKeys(Visits, 1, TRUE)

\* C3 as stated: an intra-manifest conflict exactly when a binding of another
\* service visited earlier has the same host port.
C3_Original ==
    Detected =>
        DetectedKeys = ExpectedKeys(Visits, 1, FALSE)

\* C3 witness: detection flagged a binding whose port only its own service had
\* claimed, next to a host-system conflict.
C3_Witness ==
    /\ Detected
    /\ \E k \in 1..Len(Visits) :
          /\ Classified(Visits, k, 1..(k - 1)) = "compose"
          /\ \A j \in 1..(k - 1) :
                Visits[j].Mapping.Host = Visits[k].Mapping.Host
                    => Visits[j].ServiceName = Visits[k].ServiceName
    /\ \E i \in 1..Len(PortConflicts) : PortConflicts[i].Type = "system"

\* C4: with the probe answering, each conflict processed so far got the
\* smallest free port from max(port+1, start) up to the end of the range, else
\* the smallest free port of the whole range, else nothing; and port 3000 with
\* range [8000,9999] and nothing excluded got 8000.
C4_NearestFreePort ==
    (phase \in {"Resolving", "Building"} /\ probeFailures = 0) =>
        /\ \A i \in 1..(portIdx - 1) :
              LET c == PortConflicts[i]
                  above == {q \in FreeFor(i) : q >= c.Port + 1}
              IN  IF above # {}
                  THEN Resolved(c) /\ c.Resolution[1].ResolvedPort = Min(above)
                  ELSE IF FreeFor(i) # {}
                  THEN Resolved(c) /\ c.Resolution[1].ResolvedPort = Min(FreeFor(i))
                  ELSE ~Resolved(c)
        /\ \A i \in 1..(portIdx - 1) :
              (/\ PortConflicts[i].Port = 3000
               /\ portConfig.Range = [Start |-> 8000, End |-> 9999]
               /\ FreeFor(i) = InRange(portConfig))
                  => /\ Resolved(PortConflicts[i])
                     /\ PortConflicts[i].Resolution[1].ResolvedPort = 8000

\* C4 witness: one run gave a conflict the first free port above it and gave a
\* later conflict, with nothing free above, a port from the start of the range.
C4_Witness ==
    /\ phase = "Building"
    /\ probeFailures = 0
    /\ \E i, j \in 1..Len(PortConflicts) :
          /\ i < j
          /\ Resolved(PortConflicts[i])
          /\ PortConflicts[i].Resolution[1].ResolvedPort > PortConflicts[i].Port + 1
          /\ Resolved(PortConflicts[j])
          /\ PortConflicts[j].Resolution[1].ResolvedPort < PortConflicts[j].Port

\* C5: an iteration that finds no free port in the whole range ends without an
\* error, leaves its conflict without a resolution and the allocated ports as
\* they were, and moves on to the next conflict; the loop reaches the end of the
\* list, and with the probe answering every conflict that had a free port is
\* resolved.
C5_ExhaustionIsSkipped ==
    /\ [][(/\ phase = "Resolving"
           /\ portIdx <= Len(PortConflicts)
           /\ FreeFor(portIdx) = {})
             => (/\ phase' = "Resolving"
                 /\ runErr' = "none"
                 /\ portIdx' = portIdx + 1
                 /\ ~Resolved(conflictInfo'.PortConflicts[portIdx])
                 /\ allocatedPorts' = allocatedPorts)]_vars
    /\ [](phase = "Building" =>
            /\ portIdx = Len(PortConflicts) + 1
            /\ runErr = "none"
            /\ probeFailures = 0 =>
                  \A i \in 1..Len(PortConflicts) :
                      FreeFor(i) # {} => Resolved(PortConflicts[i]))

\* C5 witness: the loop is over, a conflict that found the range exhausted is
\* unresolved, an earlier one is resolved and a later one was still processed.
C5_Witness ==
    /\ phase = "Building"
    /\ runErr = "none"
    /\ \E h, i, j \in 1..Len(PortConflicts) :
          /\ h < i /\ i < j
          /\ Resolved(PortConflicts[h])
          /\ ~Resolved(PortConflicts[i])
          /\ FreeFor(i) = {}
          /\ portIdx > j

\* C6: once the host port probe has failed in detection the run has ended with
\* the detection error, and nothing was resolved, generated or written.
C6_PortProbeFailureAborts ==
    detectProbes.port = "failed" =>
        /\ phase = "Failed"
        /\ runErr = "detect_failed"
        /\ calls = {"DetectConflicts"}
        /\ PortConflicts = <<>> /\ NetworkConflicts = <<>>
        /\ allocatedPorts = <<>> /\ usedSubnets = {}
        /\ override = NoOverride
        /\ written = NoFile

\* C6 witness: the probe failed for a manifest that binds a port in use on the host.
C6_Witness ==
    /\ detectProbes.port = "failed"
    /\ phase = "Failed"
    /\ \E s \in DOMAIN config.Services :
          \E k \in 1..Len(config.Services[s].Ports) :
              config.Services[s].Ports[k].Host \in usedPorts

\* The subnets of the container networks that exist.
ExistingSubnets == UNION {Range(n.Subnets) : n \in dockerNets}

\* C7 as stated: once the network probe has failed the run has ended with the
\* detection error and no override document exists.
C7_Original ==
    detectProbes.network = "failed" =>
        /\ phase = "Failed"
        /\ runErr = "detect_failed"
        /\ override = NoOverride

\* C7 as amended: a failed network probe does not fail detection; the conflict
\* result holds the port conflicts and an empty network-conflict list, so the
\* run goes on without any network resolution or network override.
C7_NetworkProbeFailureTolerated ==
    detectProbes.network = "failed" =>
        /\ runErr # "detect_failed"
        /\ "DetectConflicts" \in calls
        /\ DetectedKeys = ExpectedKeys(Visits, 1, TRUE)
        /\ NetworkConflicts = <<>>
        /\ usedSubnets = {}
        /\ (phase = "Done" /\ PortConflicts # <<>>) => override # NoOverride
        /\ override # NoOverride =>
              /\ DOMAIN override[1].Networks = {}
              /\ \A s \in DOMAIN override[1].Services :
                    DOMAIN override[1].Services[s].Networks = {}

\* C7 witness: the network probe failed for a manifest whose network collides
\* with an existing one, and the run still wrote an override file.
C7_Witness ==
    /\ detectProbes.network = "failed"
    /\ phase = "Done"
    /\ written # NoFile
    /\ \E n \in DOMAIN config.Networks :
          /\ Len(config.Networks[n].IPAM) > 0
          /\ config.Networks[n].IPAM[1] \in ExistingSubnets

\* C9: when detection has returned a result without any conflict, the run is
\* Done without error and nothing but DetectConflicts was invoked: there is no
\* resolution, no override document and no file.
C9_NoConflictShortCircuit ==
    (Detected /\ Len(PortConflicts) = 0 /\ Len(NetworkConflicts) = 0) =>
        /\ phase = "Done"
        /\ runErr = "none"
        /\ calls = {"DetectConflicts"}
        /\ allocatedPorts = <<>> /\ usedSubnets = {}
        /\ override = NoOverride
        /\ written = NoFile

\* C9 witness: a manifest with two bound host ports and a declared subnet, a
\* host with ports in use and an existing network, and no conflict among them.
C9_Witness ==
    /\ Detected
    /\ phase = "Done"
    /\ Len(PortConflicts) = 0 /\ Len(NetworkConflicts) = 0
    /\ detectProbes = [port |-> "ok", network |-> "ok"]
    /\ \/ /\ Cardinality({k \in 1..Len(Visits) : Visits[k].Mapping.Host # 0}) >= 2
          /\ usedPorts # {}
       \/ /\ \E n \in DOMAIN config.Networks :
                Len(config.Networks[n].IPAM) > 0 /\ config.Networks[n].IPAM[1] # EmptySubnet
          /\ ExistingSubnets # {}

\* C2 as stated: every resolved subnet differs from every subnet of the
\* existing container networks and from every other resolved subnet.
C2_Original ==
    \A i \in 1..Len(NetworkConflicts) :
        Resolved(NetworkConflicts[i]) =>
            LET sn == NetworkConflicts[i].Resolution[1].ResolvedSubnet
            IN  /\ sn \notin ExistingSubnets
                /\ \A j \in 1..Len(NetworkConflicts) :
                      (j # i /\ Resolved(NetworkConflicts[j]))
                          => NetworkConflicts[j].Resolution[1].ResolvedSubnet # sn

\* C8 as stated: with the probes answering, the conflicts and resolutions of the
\* run are those of a run that walks the services and the networks in any order.
C8_Original ==
    (phase = "Building" /\ probeFailures = 0 /\ detectProbes.network = "ok") =>
        \A sOrder \in Perms(DOMAIN config.Services), nOrder \in Perms(DOMAIN config.Networks) :
            EngineResult(config, sOrder, nOrder, projectName, usedPorts, dockerNets,
                         portConfig, strategy) = conflictInfo

\* C10 as stated: the override has a service entry only for a service with a
\* resolved port conflict or a remapped address, and a network entry only for a
\* network with a resolved subnet.
C10_Original ==
    (override # NoOverride /\ probeFailures = 0) =>
        /\ \A s \in DOMAIN override[1].Services :
              \/ \E i \in 1..Len(PortConflicts) :
                    PortConflicts[i].ServiceName = s /\ Resolved(PortConflicts[i])
              \/ \E k \in 1..Len(NetworkConflicts) :
                    /\ Resolved(NetworkConflicts[k])
                    /\ s \in DOMAIN NetworkConflicts[k].Resolution[1].ServiceIPs
        /\ \A n \in DOMAIN override[1].Networks :
              \E k \in 1..Len(NetworkConflicts) :
                  NetworkConflicts[k].NetworkName = n /\ Resolved(NetworkConflicts[k])

\* The override document of the run, when one was generated.
Generated == override # NoOverride

\* Two different services of the document list the same non-zero host port.
SharedHostPort(ov) ==
    \E s, t \in DOMAIN ov.Services :
        /\ s # t
        /\ \E i \in 1..Len(ov.Services[s].Ports), j \in 1..Len(ov.Services[t].Ports) :
              /\ ov.Services[s].Ports[i].Host # 0
              /\ ov.Services[s].Ports[i].Host = ov.Services[t].Ports[j].Host

\* Some host port or container port of the document is out of bounds.
PortOutOfBounds(ov) ==
    \E s \in DOMAIN ov.Services :
        \E i \in 1..Len(ov.Services[s].Ports) :
            \/ ov.Services[s].Ports[i].Host < 0 \/ ov.Services[s].Ports[i].Host > MaxPort
            \/ ov.Services[s].Ports[i].Container < 1 \/ ov.Services[s].Ports[i].Container > MaxPort

\* C11 as stated: ValidateOverride returns an error for every generated document
\* in which two different services share a non-zero host port or a port is out
\* of bounds.
C11_Original ==
    (Generated /\ (SharedHostPort(override[1]) \/ PortOutOfBounds(override[1])))
        => ValidateOverride(override[1])

\* C12: WriteOverrideFile was called, or a file exists, only when ValidateOverride
\* was called and accepted the generated document and dry-run is off; when
\* ValidateOverride rejected the document the run has failed with the validation
\* error, WriteOverrideFile was not called and no file exists.
C12_WriteOnlyAfterValidation ==
    /\ ("WriteOverrideFile" \in calls \/ written # NoFile) =>
          /\ Generated
          /\ "ValidateOverride" \in calls
          /\ ~ValidateOverride(override[1])
          /\ dryRun = <<FALSE>>
    /\ (phase = "Writing") => ("ValidateOverride" \in calls /\ ~ValidateOverride(override[1]))
    /\ (Generated /\ "ValidateOverride" \in calls /\ ValidateOverride(override[1])) =>
          /\ phase = "Failed"
          /\ runErr = "validate_failed"
          /\ "WriteOverrideFile" \notin calls
          /\ written = NoFile

\* C12 witness: ValidateOverride rejected a generated document that has entries.
C12_Witness ==
    /\ Generated
    /\ "ValidateOverride" \in calls
    /\ ValidateOverride(override[1])
    /\ runErr = "validate_failed"
    /\ written = NoFile

\* The indices of the port conflicts that carry a resolution.
ResolvedIndices == {i \in 1..Len(PortConflicts) : Resolved(PortConflicts[i])}

\* C13: the resolutions of the metadata are, in conflict order, one entry for
\* each port conflict with a resolution, with its service, ports, strategy and
\* reason, and nothing else; and the resolved port of each entry is a host port
\* of that service in the document.
C13_MetadataMirrorsResolutions ==
    Generated =>
        LET res == override[1].Metadata.Resolutions
        IN  /\ Len(res) = Cardinality(ResolvedIndices)
            /\ \E f \in [1..Len(res) -> 1..Len(PortConflicts)] :
                  /\ \A k, l \in 1..Len(res) : k < l => f[k] < f[l]
                  /\ {f[k] : k \in 1..Len(res)} = ResolvedIndices
                  /\ \A k \in 1..Len(res) :
                        LET c == PortConflicts[f[k]]
                        IN  /\ res[k].ServiceName = c.ServiceName
                            /\ res[k].ConflictPort = c.Port
                            /\ res[k].ResolvedPort = c.Resolution[1].ResolvedPort
                            /\ res[k].Strategy = c.Resolution[1].Strategy
                            /\ res[k].Reason = c.Resolution[1].Reason
            /\ \A k \in 1..Len(res) :
                  /\ res[k].ServiceName \in DOMAIN override[1].Services
                  /\ \E i \in 1..Len(override[1].Services[res[k].ServiceName].Ports) :
                        override[1].Services[res[k].ServiceName].Ports[i].Host
                            = res[k].ResolvedPort

\* C13 witness: a document generated from at least two resolved conflicts and
\* an unresolved one.
C13_Witness ==
    /\ Generated
    /\ Len(override[1].Metadata.Resolutions) >= 2
    /\ Cardinality(ResolvedIndices) < Len(PortConflicts)

\* The candidates of the three bands.
Band10 == {Subnet(10, x, 0, 0, 24) : x \in 20..255}
Band192 == {Subnet(192, 168, x, 0, 24) : x \in 100..255}
Band172From30 == {Subnet(172, x, 0, 0, 24) : x \in 30..255}
Band172Outside == {Subnet(172, x, 0, 0, 24) : x \in (0..255) \ (17..29)}

\* out is what a first-free scan of the three bands, the third being band3,
\* returns for the used set: the lowest free candidate of the first band that
\* has one, nothing exactly when no band has one.
FirstFreeInBands(out, used, band3) ==
    LET free10 == Band10 \ used
        free192 == Band192 \ used
        free172 == band3 \ used
        lowest(S, k) == CHOOSE sn \in S : \A other \in S : sn.addr[k] <= other.addr[k]
    IN  /\ free10 # {} => out = lowest(free10, 2)
        /\ (free10 = {} /\ free192 # {}) => out = lowest(free192, 3)
        /\ (free10 = {} /\ free192 = {} /\ free172 # {}) => out = lowest(free172, 2)
        /\ (out = EmptySubnet) <=> (free10 = {} /\ free192 = {} /\ free172 = {})
        /\ used = {} => out = Subnet(10, 20, 0, 0, 24)

\* C14 as stated: the third band is 172.x.0.0/24 for every x outside 17..29.
C14_Original ==
    callResult # <<>> => FirstFreeInBands(callResult[1], callArgs.used, Band172Outside)

\* C14 as amended: allocateNewSubnet returns the first free subnet of 10.x.0.0/24
\* (x from 20), then of 192.168.x.0/24 (x from 100), then of 172.x.0.0/24 with x
\* from 30 to 255 only; the empty result exactly when these three are exhausted;
\* 10.20.0.0/24 for an empty used set.
C14_FirstFreeSubnet ==
    callResult # <<>> => FirstFreeInBands(callResult[1], callArgs.used, Band172From30)

\* C14 witness: the first two bands are used up and the call returned a subnet
\* of the third.
C14_Witness ==
    /\ callResult # <<>>
    /\ Band10 \cup Band192 \subseteq callArgs.used
    /\ callResult[1] \in Band172From30

\* Addresses as numbers, for masks of 16 bits or more: the upper and the lower
\* half of the 32 bits.
Upper(a) == a[1] * 256 + a[2]
Lower(a) == a[3] * 256 + a[4]
RECURSIVE Pow2(_)
Pow2(n) == IF n = 0 THEN 1 ELSE 2 * Pow2(n - 1)
HostCount(sn) == Pow2(32 - sn.bits)
\* The lower half of the network address of a subnet.
BaseLower(sn) == Lower(sn.addr) - (Lower(sn.addr) % HostCount(sn))
\* The address lies in the address range of the subnet.
Contains(sn, ip) ==
    /\ Len(ip) = 4 /\ Len(sn.addr) = 4 /\ sn.bits >= 16
    /\ Upper(ip) = Upper(sn.addr)
    /\ BaseLower(sn) <= Lower(ip)
    /\ Lower(ip) < BaseLower(sn) + HostCount(sn)
\* newIP = newNet.base + (ip - oldNet.base)
IsRebased(newIP, ip, oldNet, newNet) ==
    /\ Len(newIP) = 4
    /\ Upper(newIP) = Upper(newNet.addr)
    /\ Lower(newIP) = BaseLower(newNet) + (Lower(ip) - BaseLower(oldNet))

\* The resolved network conflicts.
ResolvedNetworks == {k \in 1..Len(NetworkConflicts) : Resolved(NetworkConflicts[k])}

\* C15: in every resolution whose old and new subnet have masks of the same
\* length, each service address of the old subnet is mapped to the new base plus
\* its offset from the old base; 172.20.0.5 of 172.20.0.0/24 moved to
\* 10.20.0.0/24 is 10.20.0.5.
C15_RemapKeepsOffset ==
    /\ \A k \in ResolvedNetworks :
          LET c == NetworkConflicts[k]
              res == c.Resolution[1]
          IN  c.OriginalSubnet.bits = res.ResolvedSubnet.bits =>
                  \A s \in DOMAIN c.ServiceIPs :
                      Contains(c.OriginalSubnet, c.ServiceIPs[s]) =>
                          /\ s \in DOMAIN res.ServiceIPs
                          /\ IsRebased(res.ServiceIPs[s], c.ServiceIPs[s],
                                       c.OriginalSubnet, res.ResolvedSubnet)
    /\ remapIPAddressesToNewSubnet(Subnet(172, 20, 0, 0, 24), Subnet(10, 20, 0, 0, 24),
                                   [s \in {"db"} |-> <<172, 20, 0, 5>>])
          = [s \in {"db"} |-> <<10, 20, 0, 5>>]

\* C15 witness: a resolution between masks of the same length that moved an
\* address of the old subnet whose third octet is not 0.
C15_Witness ==
    \E k \in ResolvedNetworks :
        LET c == NetworkConflicts[k]
        IN  /\ c.OriginalSubnet.bits = c.Resolution[1].ResolvedSubnet.bits
            /\ \E s \in DOMAIN c.ServiceIPs :
                  /\ Contains(c.OriginalSubnet, c.ServiceIPs[s])
                  /\ c.ServiceIPs[s][3] # 0
                  /\ s \in DOMAIN c.Resolution[1].ServiceIPs

\* C16 as stated: a static address outside the original subnet of the conflict
\* is left out of the resolution's address mapping, and the document gives the
\* service no address on that network.
C16_Original ==
    \A k \in ResolvedNetworks :
        LET c == NetworkConflicts[k]
        IN  \A s \in DOMAIN c.ServiceIPs :
                (c.OriginalSubnet.bits >= 16 /\ ~Contains(c.OriginalSubnet, c.ServiceIPs[s])) =>
                    /\ s \notin DOMAIN c.Resolution[1].ServiceIPs
                    /\ Generated =>
                          ~(/\ s \in DOMAIN override[1].Services
                            /\ c.NetworkName \in DOMAIN override[1].Services[s].Networks)

\* The names of the container networks that exist.
ExistingNames == {n.Name : n \in dockerNets}

\* The name a manifest network gets at run time.
ActualName(n) == IF projectName = <<>> THEN <<n>> ELSE projectName \o <<"_", n>>

\* The manifest network declares a subnet.
Declares(n) == Len(config.Networks[n].IPAM) > 0 /\ config.Networks[n].IPAM[1] # EmptySubnet

\* The types of the conflicts detected for a manifest network, in list order.
TypesFor(n) ==
    LET mine == SelectSeq(NetworkConflicts, LAMBDA c : c.NetworkName = n)
    IN  [k \in 1..Len(mine) |-> mine[k].ConflictType]

\* C17 as stated: detection lists for each manifest network one subnet conflict
\* when its declared subnet is in use, else one name conflict when its run-time
\* name is in use, else nothing.
C17_Original ==
    (Detected /\ detectProbes.network = "ok") =>
        \A n \in DOMAIN config.Networks :
            TypesFor(n) =
                IF Declares(n) /\ config.Networks[n].IPAM[1] \in ExistingSubnets
                THEN <<"subnet">>
                ELSE IF Declares(n) /\ ActualName(n) \in ExistingNames
                THEN <<"name">>
                ELSE <<>>

\* n is walked before m by the network detection of the run.
WalkedBefore(n, m) ==
    \E i, j \in 1..Len(networkOrder) :
        i < j /\ networkOrder[i] = n /\ networkOrder[j] = m

\* C18 as stated: of two manifest networks that declare the same subnet, used by
\* no existing network, the one walked second is reported as a subnet conflict.
C18_Original ==
    (Detected /\ detectProbes.network = "ok") =>
        \A n, m \in DOMAIN config.Networks :
            (/\ WalkedBefore(n, m)
             /\ Declares(n) /\ Declares(m)
             /\ config.Networks[n].IPAM[1] = config.Networks[m].IPAM[1]
             /\ config.Networks[m].IPAM[1] \notin ExistingSubnets)
                => \E k \in 1..Len(NetworkConflicts) :
                      /\ NetworkConflicts[k].NetworkName = m
                      /\ NetworkConflicts[k].ConflictType = "subnet"

\* The address ranges of two subnets, of masks of 16 bits or more, intersect.
Overlaps(a, b) ==
    /\ Len(a.addr) = 4 /\ Len(b.addr) = 4
    /\ Upper(a.addr) = Upper(b.addr)
    /\ BaseLower(a) < BaseLower(b) + HostCount(b)
    /\ BaseLower(b) < BaseLower(a) + HostCount(a)

\* C19 as stated: a manifest network whose declared subnet overlaps an existing
\* subnet without being identical to it is reported as a subnet conflict, and no
\* resolved subnet overlaps an existing subnet.
C19_Original ==
    (Detected /\ detectProbes.network = "ok") =>
        /\ \A n \in DOMAIN config.Networks :
              (/\ Declares(n)
               /\ \E e \in ExistingSubnets :
                     e # config.Networks[n].IPAM[1] /\ Overlaps(config.Networks[n].IPAM[1], e))
                  => \E k \in 1..Len(NetworkConflicts) :
                        /\ NetworkConflicts[k].NetworkName = n
                        /\ NetworkConflicts[k].ConflictType = "subnet"
        /\ \A k \in ResolvedNetworks :
              \A e \in ExistingSubnets :
                  ~Overlaps(NetworkConflicts[k].Resolution[1].ResolvedSubnet, e)

\* C20: with excludePrivileged set, no port conflict is resolved to a port of
\* 1..1023, whatever the range, the probe answers and the ports in use.
C20_NoPrivilegedPort ==
    portConfig.ExcludePrivileged =>
        \A i \in 1..Len(PortConflicts) :
            Resolved(PortConflicts[i]) =>
                PortConflicts[i].Resolution[1].ResolvedPort \notin 1..PrivilegedMax

\* C20 witness: excludePrivileged is set, the range starts at a privileged port
\* that nothing uses or reserves, and a conflict whose search went back to the
\* start of the range was resolved above the privileged ports.
C20_Witness ==
    /\ portConfig.ExcludePrivileged
    /\ portConfig.Range.Start <= PrivilegedMax
    /\ (portConfig.Range.Start..PrivilegedMax) \cap (usedPorts \cup portConfig.Reserved) = {}
    /\ \E i \in 1..Len(PortConflicts) :
          /\ Resolved(PortConflicts[i])
          /\ PortConflicts[i].Resolution[1].ResolvedPort > PrivilegedMax
          /\ PortConflicts[i].Resolution[1].ResolvedPort <= PortConflicts[i].Port

\* The resolutions a call of resolveByRangeAllocation returned.
RangeResolutions == callResult[1].resolutions
RangeCallDone == callArgs.fn = "resolveByRangeAllocation" /\ callResult # <<>>

\* C21 as stated: the i-th service group gets the block from 8000 + 100*i, its
\* j-th conflict the port blockStart + j, and no resolved port is assigned to
\* two conflicts.
C21_Original ==
    RangeCallDone =>
        /\ Len(RangeResolutions) = Len(callArgs.conflicts)
        /\ \A g \in 1..Len(callResult[1].groupOrder) :
              LET mine == SelectSeq(RangeResolutions,
                                    LAMBDA r : r.ServiceName = callResult[1].groupOrder[g])
              IN  \A j \in 1..Len(mine) :
                      mine[j].ResolvedPort = basePort + portIncrement * (g - 1) + (j - 1)
        /\ \A k, l \in 1..Len(RangeResolutions) :
              k # l => RangeResolutions[k].ResolvedPort # RangeResolutions[l].ResolvedPort

OptimizeCallDone == callArgs.fn = "OptimizeResolutions" /\ callResult # <<>>
OptimizeInput == callArgs.resolutions
OptimizeSorted == callResult[1].sorted
Optimized == callResult[1].optimized

\* The entries of the output that carry the conflict of input resolution r.
OptimizedOf(r) ==
    {o \in Range(Optimized) : o.ServiceName = r.ServiceName /\ o.ConflictPort = r.ConflictPort}

StrictlyAscending(resolutions) ==
    \A i, j \in 1..Len(resolutions) :
        i < j => resolutions[i].ResolvedPort < resolutions[j].ResolvedPort

DuplicateInput(k) ==
    \E l \in 1..Len(OptimizeInput) :
        l # k /\ OptimizeInput[l].ResolvedPort = OptimizeInput[k].ResolvedPort

\* The ports the output holds before the k-th sorted resolution is processed.
TakenBefore(k) ==
    {o.ResolvedPort : o \in UNION {OptimizedOf(OptimizeSorted[j]) : j \in 1..(k - 1)}}

\* C22 as stated: ascending and distinct output; a resolution whose input port
\* was not a duplicate keeps its port and reason; a resolution is dropped only
\* when its increment exceeds 65535.
C22_Original ==
    OptimizeCallDone =>
        /\ StrictlyAscending(Optimized)
        /\ \A k \in 1..Len(OptimizeInput) :
              ~DuplicateInput(k) =>
                  \E o \in OptimizedOf(OptimizeInput[k]) :
                      /\ o.ResolvedPort = OptimizeInput[k].ResolvedPort
                      /\ o.Reason = OptimizeInput[k].Reason

\* C22, amended: the output is strictly ascending; walking the input in
\* ascending port order, each resolution lands on the lowest port from its own
\* upwards that the output does not hold yet, keeps its reason exactly when
\* that is its own port, and is dropped exactly when no such port exists up to
\* 65535.
C22_LowestUntakenPort ==
    OptimizeCallDone =>
        /\ StrictlyAscending(Optimized)
        /\ Len(Optimized) <= Len(OptimizeInput)
        /\ \A k \in 1..Len(OptimizeSorted) :
              LET r == OptimizeSorted[k]
                  top == Min({MaxPort, r.ResolvedPort + Len(OptimizeSorted)})
                  free == {q \in r.ResolvedPort..top : q \notin TakenBefore(k)}
              IN  IF free = {}
                  THEN OptimizedOf(r) = {}
                  ELSE \E o \in OptimizedOf(r) :
                          /\ OptimizedOf(r) = {o}
                          /\ o.ResolvedPort \in free
                          /\ \A q \in free : o.ResolvedPort <= q
                          /\ (o.ResolvedPort = r.ResolvedPort) = (o.Reason = r.Reason)
                          /\ o.Strategy = r.Strategy

\* An optimised list in which a resolution whose input port was unique was
\* moved to a higher port.
C22_Witness ==
    /\ OptimizeCallDone
    /\ \E k \in 1..Len(OptimizeInput) :
          /\ ~DuplicateInput(k)
          /\ \E o \in OptimizedOf(OptimizeInput[k]) :
                o.ResolvedPort > OptimizeInput[k].ResolvedPort

\* The resolved ports of the resolved conflicts of service s on host port p.
ResolvedPortsOf(s, p) ==
    {c.Resolution[1].ResolvedPort :
        c \in {d \in Range(PortConflicts) : d.ServiceName = s /\ d.Port = p /\ Resolved(d)}}

\* C23 as stated: the override port list of a service keeps length, order,
\* container port and protocol of the original list, and the host port at a
\* position is the resolved port r when the binding's original host port p
\* belongs to a resolved conflict (service, p, r), and the original otherwise
\* (checked for the bindings whose host port is unique within the service).
C23_Original ==
    Generated =>
        \A s \in PortOverrideServices(config, PortConflicts) :
            LET original == config.Services[s].Ports
                ports == override[1].Services[s].Ports
            IN  /\ Len(ports) = Len(original)
                /\ \A i \in 1..Len(original) :
                      /\ ports[i].Container = original[i].Container
                      /\ ports[i].Protocol = original[i].Protocol
                      /\ (\A j \in 1..Len(original) :
                              j # i => original[j].Host # original[i].Host)
                            => IF ResolvedPortsOf(s, original[i].Host) # {}
                               THEN ports[i].Host \in ResolvedPortsOf(s, original[i].Host)
                               ELSE ports[i].Host = original[i].Host

\* The phases in which RunE builds, validates and writes the override.
BuildPhases == {"Building", "Validating", "Writing"}

\* The phase changes of the pipeline; the relation has no cycle.
PhaseSteps ==
    {<<"Idle", "Detecting">>,
     <<"Detecting", "Resolving">>, <<"Detecting", "Done">>, <<"Detecting", "Failed">>,
     <<"Resolving", "Building">>,
     <<"Building", "Validating">>,
     <<"Validating", "Writing">>, <<"Validating", "Done">>, <<"Validating", "Failed">>,
     <<"Writing", "Done">>, <<"Writing", "Failed">>}

\* C24: a run moves Idle -> Detecting -> Resolving -> Building (generate,
\* validate, write) -> Done, or Detecting -> Done when nothing collides;
\* resolution runs only after detection returned without error, building only
\* after every conflict went through resolution, no phase is entered twice,
\* and every run ends in Done or in an error.
C24_PhaseOrder ==
    /\ [][phase' # phase => <<phase, phase'>> \in PhaseSteps]_vars
    /\ [][(phase = "Detecting" /\ phase' = "Done") => ~HasConflicts(conflictInfo')]_vars
    /\ [](phase = "Resolving" => Detected /\ HasConflicts(conflictInfo))
    /\ [](phase \in BuildPhases =>
             /\ portIdx = Len(PortConflicts) + 1
             /\ netIdx = Len(NetworkConflicts) + 1)
    /\ <>[](phase \in {"Done", "Failed"})

\* C24 witness: a run that went through every phase and wrote the file after
\* resolving both port and network conflicts.
C24_Witness ==
    /\ phase = "Done"
    /\ written # NoFile
    /\ Len(PortConflicts) > 0
    /\ Len(NetworkConflicts) > 0
    /\ calls = {"DetectConflicts", "ResolveConflicts", "GenerateFromConflicts",
                "ValidateOverride", "WriteOverrideFile"}

\* C25 as stated: when the host port probe inside AllocatePort fails while a
\* conflict is being resolved, the run aborts with that error; the call is not
\* repeated and the conflict is not merely skipped.
C25_Original ==
    [][probeFailures' > probeFailures =>
          /\ phase' = "Failed"
          /\ runErr' # "none"
          /\ Len(probeScript) - Len(probeScript') = 1]_vars

\* The non-zero host ports of the bindings no resolved conflict is about.
KeptHostPorts ==
    {p \in UNION {{b.Host : b \in Range(config.Services[s].Ports)} : s \in DOMAIN config.Services} :
        /\ p # 0
        /\ \E s \in DOMAIN config.Services :
              /\ \E b \in Range(config.Services[s].Ports) : b.Host = p
              /\ ResolvedPortsOf(s, p) = {}}

\* C26 as stated: once detection and resolution are over, no resolved port
\* equals a non-zero host port that a binding of the manifest keeps unchanged.
C26_Original ==
    phase = "Building" =>
        \A c \in Range(PortConflicts) :
            Resolved(c) => c.Resolution[1].ResolvedPort \notin KeptHostPorts

\* C27 as stated: within one resolved network conflict, two services with
\* different static addresses inside the original subnet never receive the
\* same new address.
C27_Original ==
    \A k \in ResolvedNetworks :
        LET c == NetworkConflicts[k]
            res == c.Resolution[1]
        IN  \A s, t \in DOMAIN c.ServiceIPs :
                (/\ c.ServiceIPs[s] # c.ServiceIPs[t]
                 /\ Contains(c.OriginalSubnet, c.ServiceIPs[s])
                 /\ Contains(c.OriginalSubnet, c.ServiceIPs[t]))
                    => /\ s \in DOMAIN res.ServiceIPs
                       /\ t \in DOMAIN res.ServiceIPs
                       /\ res.ServiceIPs[s] # res.ServiceIPs[t]

\* C28 as stated: for every network whose subnet the generated document sets,
\* each service with a static address on that network in the manifest gets an
\* address override on it, and that address lies in the subnet the document
\* emits for the network (checked where the emitted subnet differs from the
\* manifest's and the static address lies in the manifest's subnet).
C28_Original ==
    Generated =>
        \A n \in DOMAIN override[1].Networks :
            \A s \in DOMAIN getServiceNetworkIPs(config, n) :
                (/\ override[1].Networks[n].IPAM # config.Networks[n].IPAM
                 /\ Contains(config.Networks[n].IPAM[1], getServiceNetworkIPs(config, n)[s]))
                =>
                /\ s \in DOMAIN override[1].Services
                /\ n \in DOMAIN override[1].Services[s].Networks
                /\ Contains(override[1].Networks[n].IPAM[1],
                            override[1].Services[s].Networks[n].IPv4Address)

\* C29 as stated: for every service of the document with a non-empty port list
\* the written ports list has one entry per binding of that list, bindings with
\* host port 0 included, each with its binding's container port.
C29_Original ==
    written # NoFile =>
        \A s \in DOMAIN override[1].Services :
            LET ports == override[1].Services[s].Ports
                entries == written[1].services[s].ports
            IN  Len(ports) > 0 =>
                    /\ written[1].services[s].reset
                    /\ Len(entries) = Len(ports)
                    /\ \A i \in 1..Len(ports) : entries[i][2] = ports[i].Container

\* The ports resolvePortConflicts assigns to a conflict list under a strategy,
\* 0 for a conflict it leaves unresolved.
ResolvedPortsUnder(strat) ==
    LET conflicts == DetectPortConflicts(config, serviceOrder, usedPorts)
        resolved == resolvePortConflicts(conflicts, 1, <<>>, portConfig, usedPorts, strat)
    IN  [k \in 1..Len(resolved) |->
            IF Resolved(resolved[k]) THEN resolved[k].Resolution[1].ResolvedPort ELSE 0]

\* C30: the strategy passed to ResolveConflicts does not influence allocation.
\* Each iteration of the port loop gives, for every strategy, the same
\* resolution and allocated ports as the one the run took, up to the strategy
\* label; with the probe answering, the ports at the end of the loop are those
\* every strategy yields for the detected conflicts.
C30_StrategyIsLabelOnly ==
    /\ [][(phase = "Resolving" /\ portIdx <= Len(PortConflicts) /\ portIdx' = portIdx + 1) =>
            \A other \in Strategies :
                LET alt == ResolvePortConflict(PortConflicts[portIdx], allocatedPorts,
                                               portConfig, usedPorts, other, probeScript)
                    mine == conflictInfo'.PortConflicts[portIdx]
                IN  /\ alt.allocated = allocatedPorts'
                    /\ Resolved(alt.conflict) = Resolved(mine)
                    /\ Resolved(mine) =>
                          /\ mine.Resolution[1].Strategy = strategy
                          /\ alt.conflict.Resolution[1].Strategy = other
                          /\ alt.conflict =
                                [mine EXCEPT !.Resolution[1].Strategy = other]]_vars
    /\ []((phase = "Building" /\ probeFailures = 0 /\ probeScript = <<>>) =>
            \A other \in Strategies :
                ResolvedPortsUnder(other) =
                    [k \in 1..Len(PortConflicts) |->
                        IF Resolved(PortConflicts[k])
                        THEN PortConflicts[k].Resolution[1].ResolvedPort ELSE 0])

\* C30 witness: a run under range-allocation with two port conflicts, at the
\* end of the loop, that resolved one of them and labelled it with that strategy.
C30_Witness ==
    /\ phase = "Building"
    /\ strategy = "range_allocation"
    /\ probeFailures = 0 /\ probeScript = <<>>
    /\ Len(PortConflicts) >= 2
    /\ \E k \in 1..Len(PortConflicts) :
          /\ Resolved(PortConflicts[k])
          /\ PortConflicts[k].Resolution[1].Strategy = "range_allocation"

====
